---------------------------- MODULE Spec2Model ----------------------------
(***************************************************************************)
(* Verification model of pytorch-widedeep's streaming trainer              *)
(* (pytorch_widedeep/stream/training/trainer.py, StreamTrainer.fit) and of *)
(* the transformer tabular encoders                                        *)
(* (pytorch_widedeep/models/transformers/transformer_models.py,            *)
(* TabTransformer and SAINT).                                              *)
(*                                                                         *)
(* Two specifications share the variables:                                 *)
(*   Spec       one call of StreamTrainer.fit, stepped through its loops   *)
(*   SpecModel  construction of a TabTransformer / SAINT and forward passes*)
(***************************************************************************)
EXTENDS Integers, Sequences, FiniteSets, TLC

VARIABLES
    \* ---- StreamTrainer.fit ----
    pc,                 \* position in fit: "idle", "for_epoch", "for_batch", "done",
                        \* "error" (UnboundLocalError), "DecodeError"
    nrows,              \* rows in the file at X_train_path
    malformed,          \* the rows of the file the preprocessor cannot decode
    target,             \* the in-memory target array, target[r] for row r
    batch_size,         \* fit argument
    n_epochs,           \* fit argument
    chunksize,          \* fit argument
    epoch,              \* loop variable of `for epoch in range(n_epochs)`
    batch_idx,          \* next value enumerate() hands out in the current epoch
    it,                 \* state of the iterator over train_loader
    train_running_loss, \* self.train_running_loss
    train_loss,         \* local train_loss: None while unbound
    log,                \* calls made to the collaborators, in order
    \* ---- TabTransformer / SAINT ----
    self,               \* the model object's attributes
    passes,             \* forward passes made so far
    out                 \* what the last forward pass did

fitVars == <<pc, nrows, malformed, target, batch_size, n_epochs, chunksize, epoch,
             batch_idx, it, train_running_loss, train_loss, log>>
modelVars == <<self, passes, out>>
vars == <<pc, nrows, malformed, target, batch_size, n_epochs, chunksize, epoch,
          batch_idx, it, train_running_loss, train_loss, log, self, passes, out>>

\* Optional values: None is the empty wrapper, Some(x) wraps x.
None == <<>>
Some(x) == <<x>>
IsNone(o) == o = <<>>
Get(o) == o[1]

Min(a, b) == IF a < b THEN a ELSE b

(***************************************************************************)
(* Bounds of the model                                                     *)
(***************************************************************************)
MaxRows == 5
MaxBatch == 3
MaxChunk == 3
MaxEpochs == 2
LossLevels == 3
MaxCat == 2
MaxCont == 2
MaxInputDim == 2
MaxBlocks == 2
MaxHidden == 1
MaxPasses == 2

(***************************************************************************)
(* StreamTrainer.fit                                                       *)
(***************************************************************************)

drop_last_off == FALSE

\* DataLoader(..., drop_last=True)
drop_last == TRUE

\* The target array handed to fit: one entry per absolute row position.
TargetArray(n) == [r \in 0..(n - 1) |-> 10 * r + 1]

\* A fresh iterator over train_loader: the dataset is read from its first row,
\* no chunk is buffered and no row has been collected for the next batch.
NewIterator == [cursor |-> 0, chunk |-> <<>>, rows |-> <<>>]

IterLoaderStale(old) == old

\* iter(train_loader), made by enumerate(train_loader) at the head of each
\* epoch's inner loop.
IterLoader(old) == NewIterator

\* The dataset has no more rows to give.
Exhausted(i) == i.chunk = <<>> /\ i.cursor >= nrows

\* The loader has a batch to yield: batch_size rows collected, or (only when
\* drop_last is off) a shorter final group.
BatchReady(i) ==
    \/ Len(i.rows) = batch_size
    \/ ~drop_last /\ Exhausted(i) /\ Len(i.rows) > 0

TargetAtBatchPosition(ix) == [k \in 1..Len(ix) |-> target[k - 1]]

\* target[ix]: fancy indexing of the target array by the batch's row indices.
TargetAt(ix) == [k \in 1..Len(ix) |-> target[ix[k]]]

\* A call to a collaborator: on_epoch_begin(epoch), _train_step(data of rows ix,
\* targett, batch_idx, epoch) giving loss val, or print(epoch, train_loss) where
\* the printed train_loss was returned by batch b of epoch from.
Event(type, e, b, ix, tg, val, from) ==
    [type |-> type, epoch |-> e, batch_idx |-> b, ix |-> ix, targett |-> tg,
     val |-> val, from |-> from]

InRangeInclusive(e, n) == e <= n

\* range(n_epochs) still has the value e to give.
InRange(e, n) == e < n

InitFit ==
    /\ pc = "idle"
    /\ nrows = 0
    /\ malformed = {}
    /\ target = TargetArray(0)
    /\ batch_size = 1
    /\ n_epochs = 0
    /\ chunksize = 1
    /\ epoch = 0
    /\ batch_idx = 0
    /\ it = NewIterator
    /\ train_running_loss = 0
    /\ train_loss = None
    /\ log = <<>>

\* fit is called: the loader is built over the source (lines 73-81).
Fit ==
    /\ pc = "idle"
    /\ \E r \in 0..MaxRows, b \in 1..MaxBatch, c \in 1..MaxChunk, e \in 0..MaxEpochs :
         /\ nrows' = r
         /\ malformed' \in {{}} \cup {{m} : m \in 0..(r - 1)}
         /\ target' = TargetArray(r)
         /\ batch_size' = b
         /\ chunksize' = c
         /\ n_epochs' = e
    /\ pc' = "for_epoch"
    /\ UNCHANGED <<epoch, batch_idx, it, train_running_loss, train_loss, log>>

KeepRunningLoss(old) == old

\* Line 88: self.train_running_loss = 0.0
ResetRunningLoss(old) == 0

\* Head of an epoch: on_epoch_begin, the running loss is zeroed and the inner
\* loop asks the loader for an iterator (lines 84-89).
EpochBegin ==
    /\ pc = "for_epoch"
    /\ InRange(epoch, n_epochs)
    /\ log' = Append(log, Event("on_epoch_begin", epoch, 0, <<>>, <<>>, 0, epoch))
    /\ train_running_loss' = ResetRunningLoss(train_running_loss)
    /\ it' = IterLoader(it)
    /\ batch_idx' = 0
    /\ pc' = "for_batch"
    /\ UNCHANGED <<nrows, malformed, target, batch_size, n_epochs, chunksize, epoch, train_loss>>

SkipFailedChunk(err) == "for_batch"

\* Lines 89-94: nothing in fit catches what the loader raises while the inner
\* loop asks it for the next batch: the exception leaves fit.
Propagate(err) == err

\* The dataset reads the next chunksize rows of the file and preprocesses
\* them; a row that cannot be decoded raises a decode error.
ReadChunk ==
    /\ pc = "for_batch"
    /\ ~BatchReady(it)
    /\ it.chunk = <<>>
    /\ it.cursor < nrows
    /\ LET hi == Min(it.cursor + chunksize, nrows)
           rows == [k \in 1..(hi - it.cursor) |-> it.cursor + k - 1]
       IN IF \E k \in 1..Len(rows) : rows[k] \in malformed
            THEN /\ it' = [it EXCEPT !.cursor = hi]
                 /\ pc' = Propagate("DecodeError")
                 /\ log' = Append(log, Event("DecodeError", epoch, batch_idx, rows,
                                             <<>>, 0, epoch))
            ELSE /\ it' = [it EXCEPT !.chunk = rows, !.cursor = hi]
                 /\ UNCHANGED <<pc, log>>
    /\ UNCHANGED <<nrows, malformed, target, batch_size, n_epochs, chunksize, epoch,
                   batch_idx, train_running_loss, train_loss>>

\* The loader takes the dataset's next row into the batch it is collecting.
CollectRow ==
    /\ pc = "for_batch"
    /\ ~BatchReady(it)
    /\ it.chunk # <<>>
    /\ it' = [it EXCEPT !.rows = Append(it.rows, Head(it.chunk)),
                        !.chunk = Tail(it.chunk)]
    /\ UNCHANGED <<pc, nrows, malformed, target, batch_size, n_epochs, chunksize, epoch,
                   batch_idx, train_running_loss, train_loss, log>>

\* The loss the model gives on a batch: it depends on the rows of the batch and
\* on how far training has come.
BatchLoss(e, b, ix) == 1 + ((e + b + Len(ix) + ix[1]) % LossLevels)

\* Trainer._train_step: one forward + loss + backward + optimizer step; the
\* batch's loss is added to the running loss and the running mean is returned.
TrainStepLoss(running, b, loss) ==
    [running |-> running + loss, avg |-> (running + loss) \div (b + 1)]

\* One pass of the inner loop's body on the batch the loader yields (lines 89-94).
TrainStep ==
    /\ pc = "for_batch"
    /\ BatchReady(it)
    /\ LET ix == it.rows
           targett == TargetAt(ix)
           loss == BatchLoss(epoch, batch_idx, ix)
           res == TrainStepLoss(train_running_loss, batch_idx, loss)
       IN /\ log' = Append(log, Event("_train_step", epoch, batch_idx, ix, targett, loss, epoch))
          /\ train_running_loss' = res.running
          /\ train_loss' = Some([epoch |-> epoch, batch_idx |-> batch_idx, val |-> res.avg])
    /\ it' = [it EXCEPT !.rows = <<>>]
    /\ batch_idx' = batch_idx + 1
    /\ UNCHANGED <<pc, nrows, malformed, target, batch_size, n_epochs, chunksize, epoch>>

\* The loader is exhausted (a short final group is dropped); the epoch's loss
\* is printed (line 95). Reading train_loss before any batch bound it raises.
EpochEnd ==
    /\ pc = "for_batch"
    /\ Exhausted(it)
    /\ ~BatchReady(it)
    /\ IF IsNone(train_loss)
         THEN /\ pc' = "error"
              /\ UNCHANGED <<epoch, log>>
         ELSE /\ log' = Append(log, Event("print", epoch, Get(train_loss).batch_idx, <<>>, <<>>,
                                          Get(train_loss).val, Get(train_loss).epoch))
              /\ epoch' = epoch + 1
              /\ pc' = "for_epoch"
    /\ UNCHANGED <<nrows, malformed, target, batch_size, n_epochs, chunksize, batch_idx, it,
                   train_running_loss, train_loss>>

\* range(n_epochs) is used up: self.model.train() and fit returns (line 105).
FitReturn ==
    /\ pc = "for_epoch"
    /\ ~InRange(epoch, n_epochs)
    /\ pc' = "done"
    /\ UNCHANGED <<nrows, malformed, target, batch_size, n_epochs, chunksize, epoch,
                   batch_idx, it, train_running_loss, train_loss, log>>

(***************************************************************************)
(* TabTransformer / SAINT: construction                                    *)
(***************************************************************************)
Range(f) == {f[k] : k \in DOMAIN f}
Last(q) == q[Len(q)]

CatName(i) == "cat" \o ToString(i)
ContName(i) == "cont" \o ToString(i)

\* The categorical columns of a dataset: the special-token column first when
\* the preprocessing added it, then n more, each with its cardinality.
EmbedInput(special, n) ==
    (IF special THEN << <<"special_token", 1>> >> ELSE <<>>)
        \o [i \in 1..n |-> <<CatName(i), i + 1>>]

ContinuousCols(m) == [i \in 1..m |-> ContName(i)]

\* column name -> position in a row of X
ColumnIdx(embed_input, continuous_cols) ==
    LET names == [i \in 1..Len(embed_input) |-> embed_input[i][1]]
                    \o (IF IsNone(continuous_cols) THEN <<>> ELSE Get(continuous_cols))
    IN [nm \in Range(names) |-> (CHOOSE i \in 1..Len(names) : names[i] = nm) - 1]

\* The object before __init__ has set anything.
NewModel ==
    [status |-> "new", kind |-> "", column_idx |-> <<>>, embed_input |-> <<>>,
     continuous_cols |-> None, input_dim |-> 0, n_blocks |-> 0,
     keep_attn_weights |-> FALSE, with_special_token |-> FALSE,
     embed_continuous |-> FALSE, cont_norm_layer |-> "", mlp_hidden_dims |-> None,
     cat_embed_layers |-> None, cont_norm |-> None, cont_embed_layers |-> None,
     transformer_blks |-> None, attention_weights |-> None,
     transformer_mlp |-> None, output_dim |-> None]

\* Lines 153-175: the arguments are stored on the object.
SetAttrs(a) ==
    [NewModel EXCEPT
        !.status = "init", !.kind = a.kind, !.column_idx = a.column_idx,
        !.embed_input = a.embed_input, !.continuous_cols = a.continuous_cols,
        !.input_dim = a.input_dim, !.n_blocks = a.n_blocks,
        !.keep_attn_weights = a.keep_attn_weights,
        !.with_special_token = a.with_special_token,
        !.embed_continuous = a.embed_continuous,
        !.cont_norm_layer = a.cont_norm_layer,
        !.mlp_hidden_dims = a.mlp_hidden_dims]

Raise(s, err) == [s EXCEPT !.status = err]

\* Line 177: the data has the special-token column and the flag is off.
SpecialTokenMismatch(s) ==
    "special_token" \in DOMAIN s.column_idx /\ ~s.with_special_token

\* _set_categ_embeddings: one table of val + 1 rows per categorical column.
set_categ_embeddings(s) ==
    [s EXCEPT !.cat_embed_layers =
        Some([i \in 1..Len(s.embed_input) |->
                [col |-> s.embed_input[i][1],
                 num_embeddings |-> s.embed_input[i][2] + 1,
                 embedding_dim |-> s.input_dim]])]

\* _set_cont_cols: the normalisation layer of the continuous columns (none is
\* made for an unknown cont_norm_layer) and, if asked for, their embeddings.
set_cont_cols(s) ==
    IF IsNone(s.continuous_cols) THEN s
    ELSE LET n == Len(Get(s.continuous_cols))
             s1 == IF s.cont_norm_layer \in {"layernorm", "batchnorm"}
                     THEN [s EXCEPT !.cont_norm =
                              Some([kind |-> s.cont_norm_layer, n |-> n])]
                     ELSE s
         IN IF s.embed_continuous
              THEN [s1 EXCEPT !.cont_embed_layers = s.continuous_cols]
              ELSE s1

\* n_blocks encoder blocks of one kind; a SaintEncoder is given n_feats.
Blocks(n, kind, n_feats) == [i \in 1..n |-> [kind |-> kind, n_feats |-> n_feats]]

\* The slots of attention_weights: None, one tensor, or a tuple of two.
EmptySlot == [form |-> "None", items |-> <<>>]

\* Lines 187-201: the blocks, and one empty slot per block when the
\* attention weights are kept.
set_transformer_blks(s) ==
    LET s1 == [s EXCEPT !.transformer_blks =
                  Some(Blocks(s.n_blocks, "TransformerEncoder", 0))]
    IN IF s.keep_attn_weights
         THEN [s1 EXCEPT !.attention_weights = Some([i \in 1..s.n_blocks |-> EmptySlot])]
         ELSE s1

set_mlp_hidden_dims_forgets_cont(s) ==
    LET d == s.input_dim
        ncat == Len(s.embed_input)
        l == IF ~IsNone(s.continuous_cols)
               THEN IF s.with_special_token
                      THEN d
                      ELSE IF s.embed_continuous
                             THEN (ncat + Len(Get(s.continuous_cols))) * d
                             ELSE ncat * d + Len(Get(s.continuous_cols))
               ELSE ncat * d
    IN <<l, l * 4, l * 2>>

\* _set_mlp_hidden_dims
set_mlp_hidden_dims(s) ==
    LET d == s.input_dim
        ncat == Len(s.embed_input)
    IN IF ~IsNone(s.continuous_cols)
         THEN IF s.with_special_token
                THEN IF s.embed_continuous
                       THEN <<d, d * 4, d * 2>>
                       ELSE LET l == d + Len(Get(s.continuous_cols))
                            IN <<l, l * 4, l * 2>>
                ELSE IF s.embed_continuous
                       THEN LET l == (ncat + Len(Get(s.continuous_cols))) * d
                            IN <<l, l * 4, l * 2>>
                       ELSE LET l == ncat * d + Len(Get(s.continuous_cols))
                            IN <<l, l * 4, l * 2>>
         ELSE LET l == ncat * d
              IN <<l, l * 4, l * 2>>

HiddenDimsAlwaysAuto(s, arg) == set_mlp_hidden_dims(s)

\* Lines 203-204: `if not mlp_hidden_dims` is true of None and of an empty list.
HiddenDims(s, arg) ==
    IF IsNone(arg) \/ Get(arg) = <<>> THEN set_mlp_hidden_dims(s) ELSE Get(arg)

\* Lines 203-215: the MLP over the hidden dimensions, and output_dim.
set_transformer_mlp(s) ==
    LET mlp_hidden_dims == HiddenDims(s, s.mlp_hidden_dims)
    IN [s EXCEPT !.transformer_mlp = Some(mlp_hidden_dims),
                 !.output_dim = Some(Last(mlp_hidden_dims)),
                 !.status = "ok"]

TabTransformerInitChecksLate(a) ==
    LET s == set_categ_embeddings(SetAttrs(a))
    IN IF SpecialTokenMismatch(s)
         THEN Raise(s, "ValueError")
         ELSE set_transformer_mlp(set_transformer_blks(set_cont_cols(s)))

\* TabTransformer.__init__
TabTransformerInit(a) ==
    LET s == SetAttrs(a)
    IN IF SpecialTokenMismatch(s)
         THEN Raise(s, "ValueError")
         ELSE set_transformer_mlp(set_transformer_blks(set_cont_cols(
                  set_categ_embeddings(s))))

\* SAINT.__init__: the parent's, then the blocks are replaced by SaintEncoders.
\* len(continuous_cols) raises when the columns are None.
SAINTInit(a) ==
    LET s == TabTransformerInit(a)
    IN IF s.status # "ok" THEN s
       ELSE IF a.embed_continuous /\ IsNone(a.continuous_cols)
              THEN Raise(s, "TypeError")
              ELSE LET n_feats == IF a.embed_continuous
                                    THEN Len(a.embed_input) + Len(Get(a.continuous_cols))
                                    ELSE Len(a.embed_input)
                   IN [s EXCEPT !.transformer_blks =
                          Some(Blocks(a.n_blocks, "SaintEncoder", n_feats))]

\* The hidden dimensions a caller may pass.
ExplicitDims ==
    {<<>>} \cup {<<w>> : w \in 1..MaxHidden}
           \cup {<<w, v>> : w \in 1..MaxHidden, v \in 1..MaxHidden}

\* The constructor calls made.
Args ==
    {[kind |-> k, column_idx |-> ColumnIdx(EmbedInput(sp, n), cc),
      embed_input |-> EmbedInput(sp, n), continuous_cols |-> cc,
      input_dim |-> d, n_blocks |-> nb, keep_attn_weights |-> kw,
      with_special_token |-> wst, embed_continuous |-> ec,
      cont_norm_layer |-> nl, mlp_hidden_dims |-> hd] :
        k \in {"TabTransformer", "SAINT"}, sp \in BOOLEAN, n \in 1..MaxCat,
        cc \in {None} \cup {Some(ContinuousCols(m)) : m \in 0..MaxCont},
        d \in 1..MaxInputDim, nb \in 0..MaxBlocks, kw \in BOOLEAN,
        wst \in BOOLEAN, ec \in BOOLEAN,
        nl \in {"layernorm", "batchnorm", "instancenorm"},
        hd \in {None} \cup {Some(h) : h \in ExplicitDims}}

(***************************************************************************)
(* TabTransformer / SAINT: forward                                         *)
(***************************************************************************)
NoForward ==
    [status |-> "none", X |-> <<>>, lookups |-> <<>>, tokens |-> <<>>,
     blocks_run |-> 0, pooled |-> 0, concat |-> <<>>, norm |-> "",
     mlp_in |-> 0, width |-> 0]

\* The categorical part of a sample of X, one integer code per column of
\* embed_input: every column at the reserved code 0, every column at its first
\* category, or every column at its last category (its cardinality).
XRows(s) ==
    {[i \in 1..Len(s.embed_input) |-> 0],
     [i \in 1..Len(s.embed_input) |-> 1],
     [i \in 1..Len(s.embed_input) |-> s.embed_input[i][2]]}

LookupOffsetByOne(code) == code + 1

\* Lines 220-222: the row of a column's table that is looked up for the code
\* found in X, X[:, self.column_idx[col]].long().
Lookup(code) == code

\* Lines 219-224: the rows looked up for a sample, one per categorical column.
Lookups(s, X) == [i \in 1..Len(s.embed_input) |-> Lookup(X[i])]

\* The attn_weights a sublayer of block i kept in pass p.
Weights(i, p, attn) == [blk |-> i, pass |-> p, attn |-> attn]

\* hasattr(blk, "row_attn"): the dual-attention block has the sublayer.
HasRowAttn(blk) == blk.kind = "SaintEncoder"

BlockAttnAlwaysTensor(blk, i, p) ==
    [form |-> "tensor", items |-> <<Weights(i, p, "self_attn")>>]

\* Lines 241-248: what is stored for block i (counted from 0) in pass p.
BlockAttn(blk, i, p) ==
    IF HasRowAttn(blk)
      THEN [form |-> "tuple",
            items |-> <<Weights(i, p, "self_attn"), Weights(i, p, "row_attn")>>]
      ELSE [form |-> "tensor", items |-> <<Weights(i, p, "self_attn")>>]

TokensAlwaysEmbedded(s) ==
    [i \in 1..Len(s.embed_input) |-> s.embed_input[i][1]]
        \o (IF ~IsNone(s.continuous_cols) THEN Get(s.continuous_cols) ELSE <<>>)

\* Lines 219-237: the tokens given to the encoder, one per categorical column
\* and, when they are embedded, one per continuous column.
Tokens(s) ==
    [i \in 1..Len(s.embed_input) |-> s.embed_input[i][1]]
        \o (IF ~IsNone(s.continuous_cols) /\ s.embed_continuous
              THEN Get(s.continuous_cols)
              ELSE <<>>)

\* A SaintEncoder reshapes its input by n_feats: another token count fails.
BlockFails(blk, tokens) == blk.kind = "SaintEncoder" /\ blk.n_feats # Len(tokens)

\* The number of blocks the loop of lines 239-248 gets through.
BlocksRun(blks, tokens) ==
    IF \E i \in 1..Len(blks) : BlockFails(blks[i], tokens)
      THEN (CHOOSE i \in 1..Len(blks) :
               /\ BlockFails(blks[i], tokens)
               /\ \A j \in 1..(i - 1) : ~BlockFails(blks[j], tokens)) - 1
      ELSE Len(blks)

\* Lines 250-253: the first token, or all tokens flattened.
Pooled(s, tokens) ==
    IF s.with_special_token THEN s.input_dim ELSE Len(tokens) * s.input_dim

\* forward(X), for the object s in its pass number p.
ForwardPass(s, p, X) ==
    LET tokens == Tokens(s)
        blks == Get(s.transformer_blks)
        ran == BlocksRun(blks, tokens)
        s1 == IF s.keep_attn_weights
                THEN [s EXCEPT !.attention_weights =
                        Some([i \in 1..Len(Get(s.attention_weights)) |->
                                IF i <= ran THEN BlockAttn(blks[i], i - 1, p)
                                ELSE Get(s.attention_weights)[i]])]
                ELSE s
        pooled == Pooled(s, tokens)
        concat == ~IsNone(s.continuous_cols) /\ ~s.embed_continuous
        mlp_in == IF concat THEN pooled + Len(Get(s.continuous_cols)) ELSE pooled
        dims == Get(s.transformer_mlp)
        o == [NoForward EXCEPT !.X = X, !.lookups = Lookups(s, X),
                               !.tokens = tokens, !.blocks_run = ran]
        cat == IF concat THEN Get(s.continuous_cols) ELSE <<>>
        norm == IF concat THEN Get(s.cont_norm).kind ELSE ""
    IN IF ran < Len(blks)
         THEN [self |-> s1, out |-> [o EXCEPT !.status = "ShapeError"]]
       ELSE IF concat /\ IsNone(s.cont_norm)
         THEN [self |-> s1,
               out |-> [o EXCEPT !.status = "AttributeError", !.pooled = pooled]]
       ELSE IF Len(dims) >= 2 /\ dims[1] # mlp_in
         THEN [self |-> s1,
               out |-> [o EXCEPT !.status = "ShapeError", !.pooled = pooled,
                                 !.concat = cat, !.norm = norm, !.mlp_in = mlp_in]]
       ELSE [self |-> s1,
             out |-> [o EXCEPT !.status = "ok", !.pooled = pooled, !.mlp_in = mlp_in,
                               !.concat = cat, !.norm = norm,
                               !.width = IF Len(dims) >= 2 THEN Last(dims) ELSE mlp_in]]

InitModel ==
    /\ self = NewModel
    /\ passes = 0
    /\ out = NoForward

\* A model is constructed.
Construct ==
    /\ self.status = "new"
    /\ \E a \in Args :
         self' = IF a.kind = "SAINT" THEN SAINTInit(a) ELSE TabTransformerInit(a)
    /\ UNCHANGED <<passes, out>>

\* A forward pass of the constructed model.
Forward ==
    /\ self.status = "ok"
    /\ passes < MaxPasses
    /\ \E X \in XRows(self) :
         LET r == ForwardPass(self, passes + 1, X)
         IN /\ self' = r.self
            /\ out' = r.out
    /\ passes' = passes + 1

Init == InitFit /\ InitModel

Next ==
    \/ Fit /\ UNCHANGED modelVars
    \/ EpochBegin /\ UNCHANGED modelVars
    \/ ReadChunk /\ UNCHANGED modelVars
    \/ CollectRow /\ UNCHANGED modelVars
    \/ TrainStep /\ UNCHANGED modelVars
    \/ EpochEnd /\ UNCHANGED modelVars
    \/ FitReturn /\ UNCHANGED modelVars

Spec == Init /\ [][Next]_vars

NextModel ==
    \/ Construct /\ UNCHANGED fitVars
    \/ Forward /\ UNCHANGED fitVars

SpecModel == Init /\ [][NextModel]_vars

(***************************************************************************)
(* Properties of StreamTrainer.fit                                         *)
(***************************************************************************)
Finished == pc \in {"done", "error"}

IsStep(ev) == ev.type = "_train_step"
IsBegin(ev) == ev.type = "on_epoch_begin"
IsPrint(ev) == ev.type = "print"

Steps == SelectSeq(log, IsStep)
StepsIn(e) == SelectSeq(log, LAMBDA ev : IsStep(ev) /\ ev.epoch = e)
BeginsIn(e) == SelectSeq(log, LAMBDA ev : IsBegin(ev) /\ ev.epoch = e)
PrintsIn(e) == SelectSeq(log, LAMBDA ev : IsPrint(ev) /\ ev.epoch = e)
\* The row indices of the batches trained on in epoch e, in order.
BatchesIn(e) == [k \in 1..Len(StepsIn(e)) |-> StepsIn(e)[k].ix]
IsPrefix(s, t) == Len(s) <= Len(t) /\ \A k \in 1..Len(s) : s[k] = t[k]

\* C1: a fit over R rows with batch size B and E epochs makes E * floor(R / B)
\* train steps in all, floor(R / B) in every epoch, one per batch the loader
\* yields.
C1_TrainSteps ==
    /\ Finished => Len(Steps) = n_epochs * (nrows \div batch_size)
    /\ Finished => \A e \in 0..(n_epochs - 1) : Len(StepsIn(e)) = nrows \div batch_size
    /\ \A e \in 0..(epoch - 1) : Len(StepsIn(e)) = nrows \div batch_size
    /\ pc = "for_batch" => Len(StepsIn(epoch)) = batch_idx

C1_Witness ==
    /\ pc = "done"
    /\ n_epochs = 2 /\ nrows = 5 /\ batch_size = 2 /\ chunksize = 3
    /\ Len(Steps) = 4

\* C2: every batch given to a train step has exactly batch_size rows, all of
\* them rows of the source; the rows of a short final group are never trained
\* on, in any epoch.
C2_FullBatchesOnly ==
    \A i \in 1..Len(log) :
        IsStep(log[i]) =>
            /\ Len(log[i].ix) = batch_size
            /\ \A k \in 1..Len(log[i].ix) :
                   /\ log[i].ix[k] >= 0
                   /\ log[i].ix[k] < (nrows \div batch_size) * batch_size

\* A run that ended with a short group, collected across a chunk boundary,
\* left untrained after at least one full batch.
C2_Witness ==
    /\ pc = "done"
    /\ Len(Steps) > 0
    /\ Len(it.rows) > 1
    /\ Len(it.rows) < batch_size
    /\ it.rows[1] \div chunksize # it.rows[Len(it.rows)] \div chunksize

\* C3: in every fit call each epoch's loss is printed exactly once, after all
\* of that epoch's batches and before the next epoch begins, and the printed
\* value is the loss returned by that epoch's last batch.
C3_LossReportedEachEpoch ==
    /\ Finished => \A e \in 0..(n_epochs - 1) : Len(PrintsIn(e)) = 1
    /\ \A e \in 0..(epoch - 1) : Len(PrintsIn(e)) = 1
    /\ \A i \in 1..Len(log) :
          IsPrint(log[i]) =>
              /\ log[i].from = log[i].epoch
              /\ Len(StepsIn(log[i].epoch)) > 0
              /\ log[i].batch_idx = Len(StepsIn(log[i].epoch)) - 1
              /\ \A j \in 1..Len(log) :
                     /\ (IsStep(log[j]) /\ log[j].epoch = log[i].epoch) => j < i
                     /\ (IsBegin(log[j]) /\ log[j].epoch > log[i].epoch) => i < j

\* C4: every epoch starts from a fresh iterator: its first batch starts at the
\* source's first row and its batches are those of the first epoch, in order.
C4_EpochRereadsSource ==
    /\ \A i \in 1..Len(log) :
          (IsStep(log[i]) /\ log[i].batch_idx = 0) => log[i].ix[1] = 0
    /\ \A e \in 0..(epoch - 1) : BatchesIn(e) = BatchesIn(0)
    /\ pc = "for_batch" => IsPrefix(BatchesIn(epoch), BatchesIn(0))
    /\ (pc = "for_batch" /\ batch_idx = 0 /\ it.rows = <<>> /\ it.chunk = <<>>)
          => it.cursor = 0

C4_Witness ==
    /\ pc = "done"
    /\ n_epochs >= 2
    /\ Len(StepsIn(1)) >= 2
    /\ nrows % batch_size # 0

\* C5: on_epoch_begin fires exactly once per epoch, for epochs 0 .. n_epochs-1
\* in increasing order, before every batch of its epoch and after every batch
\* of the epoch before; with n_epochs = 0 nothing fires and nothing is trained.
C5_EpochBeginHook ==
    /\ Finished => \A e \in 0..(n_epochs - 1) : Len(BeginsIn(e)) = 1
    /\ \A i \in 1..Len(log) :
          IsBegin(log[i]) =>
              /\ Len(BeginsIn(log[i].epoch)) = 1
              /\ log[i].epoch \in 0..(n_epochs - 1)
              /\ \A j \in 1..Len(log) :
                     /\ (IsBegin(log[j]) /\ j < i) => log[j].epoch < log[i].epoch
                     /\ (IsStep(log[j]) /\ log[j].epoch = log[i].epoch) => i < j
                     /\ (IsStep(log[j]) /\ log[j].epoch < log[i].epoch) => j < i
    /\ \A i \in 1..Len(log) :
          IsStep(log[i]) => Len(BeginsIn(log[i].epoch)) = 1
    /\ (pc # "idle" /\ n_epochs = 0) => log = <<>>

(***************************************************************************)
(* Properties of TabTransformer / SAINT                                    *)
(***************************************************************************)
Built == self.status = "ok"

NothingAllocated(s) ==
    /\ IsNone(s.cat_embed_layers)
    /\ IsNone(s.cont_norm)
    /\ IsNone(s.cont_embed_layers)
    /\ IsNone(s.transformer_blks)
    /\ IsNone(s.attention_weights)
    /\ IsNone(s.transformer_mlp)
    /\ IsNone(s.output_dim)

\* C6: constructing a TabTransformer or a SAINT whose column index has the
\* special-token column while with_special_token is False fails with the
\* constructor's configuration error (a ValueError), before an embedding
\* table, normalisation layer, encoder block or MLP is allocated.
C6_SpecialTokenRejected ==
    (self.status # "new" /\ "special_token" \in DOMAIN self.column_idx
        /\ ~self.with_special_token)
      => (self.status = "ValueError" /\ NothingAllocated(self) /\ passes = 0)

C6_Witness ==
    /\ self.status = "ValueError"
    /\ self.kind = "SAINT"
    /\ ~IsNone(self.continuous_cols)
    /\ self.embed_continuous

\* C7: when the hidden dimensions are auto-sized, their first element is the
\* width of the vector forward hands to the MLP.
C7_AutoWidthIsForwardWidth ==
    (Built /\ IsNone(self.mlp_hidden_dims) /\ passes > 0 /\ out.mlp_in > 0)
      => Get(self.transformer_mlp)[1] = out.mlp_in

\* The input width by the rules of the resolver, first match first, where
\* continuous columns "exist" when continuous_cols was given (is not None).
RuleWidth(s) ==
    LET d == s.input_dim
        ncat == Len(s.embed_input)
        exist == ~IsNone(s.continuous_cols)
        ncont == IF exist THEN Len(Get(s.continuous_cols)) ELSE 0
    IN CASE exist /\ s.with_special_token ->
                IF s.embed_continuous THEN d ELSE d + ncont
         [] ~(exist /\ s.with_special_token)
              /\ s.embed_continuous /\ ~s.with_special_token -> (ncat + ncont) * d
         [] ~(exist /\ s.with_special_token)
              /\ ~(s.embed_continuous /\ ~s.with_special_token)
              /\ exist /\ ~s.embed_continuous -> ncat * d + ncont
         [] OTHER -> ncat * d

C9_AnyListTakesPrecedence ==
    Built =>
      /\ ~IsNone(self.mlp_hidden_dims)
            => Get(self.transformer_mlp) = Get(self.mlp_hidden_dims)
      /\ self.output_dim = Some(Last(Get(self.transformer_mlp)))
      /\ IsNone(self.mlp_hidden_dims)
            => Get(self.transformer_mlp)
                 = <<RuleWidth(self), 4 * RuleWidth(self), 2 * RuleWidth(self)>>

\* C9 amended: a non-empty list given as mlp_hidden_dims is used unchanged and
\* output_dim is the last element of the dimensions used; the dimensions are
\* auto-sized when the argument is absent or an empty list.
C9_NonEmptyListTakesPrecedence ==
    Built =>
      /\ (~IsNone(self.mlp_hidden_dims) /\ Get(self.mlp_hidden_dims) # <<>>)
            => Get(self.transformer_mlp) = Get(self.mlp_hidden_dims)
      /\ self.output_dim = Some(Last(Get(self.transformer_mlp)))
      /\ (IsNone(self.mlp_hidden_dims) \/ Get(self.mlp_hidden_dims) = <<>>)
            => Get(self.transformer_mlp)
                 = <<RuleWidth(self), 4 * RuleWidth(self), 2 * RuleWidth(self)>>

C9_Witness ==
    /\ Built
    /\ self.mlp_hidden_dims = Some(<<1, 1>>)
    /\ RuleWidth(self) # 1
    /\ self.output_dim = Some(1)
    /\ passes > 0

\* C10: with keep_attn_weights and n_blocks = k, attention_weights has k slots,
\* all None before the first forward pass; after a forward pass slot i holds
\* the weights block i gave in that pass: one tensor for a TabTransformer, the
\* tuple (self_attn weights, row_attn weights) for a SAINT, that is the
\* attention across a row's tokens first and the attention across the
\* samples second.
C10_AttentionWeightSlots ==
    (Built /\ self.keep_attn_weights) =>
      /\ ~IsNone(self.attention_weights)
      /\ Len(Get(self.attention_weights)) = self.n_blocks
      /\ \A i \in 1..self.n_blocks :
            LET slot == Get(self.attention_weights)[i]
            IN IF passes = 0 THEN slot.form = "None" /\ slot.items = <<>>
               ELSE IF self.kind = "SAINT"
                 THEN /\ slot.form = "tuple"
                      /\ slot.items = <<[blk |-> i - 1, pass |-> passes, attn |-> "self_attn"],
                                        [blk |-> i - 1, pass |-> passes, attn |-> "row_attn"]>>
                 ELSE /\ slot.form = "tensor"
                      /\ slot.items = <<[blk |-> i - 1, pass |-> passes, attn |-> "self_attn"]>>

C10_Witness ==
    /\ Built
    /\ self.kind = "SAINT"
    /\ self.keep_attn_weights
    /\ self.n_blocks = 2
    /\ passes = 2
    /\ Get(self.attention_weights)[2].form = "tuple"

\* C11 as stated: the table of a categorical column of cardinality c has c + 1
\* rows and forward looks up the row at (the code found in X) + 1, so that no
\* code selects row 0.
C11_LookupOffsetInForward ==
    (Built /\ passes > 0) =>
      \A i \in 1..Len(self.embed_input) :
        /\ Get(self.cat_embed_layers)[i].num_embeddings = self.embed_input[i][2] + 1
        /\ out.lookups[i] = out.X[i] + 1
        /\ out.lookups[i] # 0

\* C11 amended: the table has c + 1 rows and forward looks up the row at the
\* code found in X, with no offset: the codes 1 .. c select the rows 1 .. c, and
\* row 0 is selected by the code 0 alone.
C11_LookupAtCode ==
    /\ (self.status # "new" /\ ~IsNone(self.cat_embed_layers)) =>
         \A i \in 1..Len(self.embed_input) :
           /\ Get(self.cat_embed_layers)[i].col = self.embed_input[i][1]
           /\ Get(self.cat_embed_layers)[i].num_embeddings = self.embed_input[i][2] + 1
    /\ (Built /\ passes > 0) =>
         /\ Len(out.lookups) = Len(self.embed_input)
         /\ \A i \in 1..Len(self.embed_input) :
              /\ out.lookups[i] = out.X[i]
              /\ out.lookups[i] \in 0..(Get(self.cat_embed_layers)[i].num_embeddings - 1)
              /\ (out.lookups[i] = 0) <=> (out.X[i] = 0)

C11_Witness ==
    /\ Built
    /\ passes > 0
    /\ Len(self.embed_input) = 3
    /\ out.X = <<1, 2, 3>>
    /\ out.lookups = <<1, 2, 3>>

\* C12: a decode error raised while a batch is produced leaves fit and ends
\* the run: the chunk is not read again, no batch is trained, no epoch begins
\* and nothing is printed after it, and fit does not return.
C12_DecodeErrorAborts ==
    /\ \A i \in 1..Len(log) : log[i].type = "DecodeError" => i = Len(log)
    /\ (\E i \in 1..Len(log) : log[i].type = "DecodeError") => pc = "DecodeError"
    /\ pc = "DecodeError" =>
         /\ log # <<>>
         /\ log[Len(log)].type = "DecodeError"
         /\ \E k \in 1..Len(log[Len(log)].ix) : log[Len(log)].ix[k] \in malformed

\* A run of two epochs that trained a batch and then met a malformed row in
\* a later chunk of its first epoch.
C12_Witness ==
    /\ pc = "DecodeError"
    /\ n_epochs = 2
    /\ epoch = 0
    /\ Len(Steps) > 0
    /\ it.cursor < nrows

RECURSIVE SumLoss(_)
SumLoss(evs) == IF evs = <<>> THEN 0 ELSE Head(evs).val + SumLoss(Tail(evs))

\* C14: the running loss is zeroed at the head of every epoch, before the
\* epoch's first batch, and not between two batches of an epoch: inside an
\* epoch it is the sum of the losses of that epoch's batches so far, and
\* between epochs that of the epoch just ended.
C14_RunningLossPerEpoch ==
    /\ pc \in {"for_batch", "error", "DecodeError"}
         => train_running_loss = SumLoss(StepsIn(epoch))
    /\ (pc = "for_batch" /\ batch_idx = 0) => train_running_loss = 0
    /\ (pc \in {"for_epoch", "done"} /\ epoch > 0)
         => train_running_loss = SumLoss(StepsIn(epoch - 1))

C14_Witness ==
    /\ pc = "for_batch"
    /\ epoch = 1
    /\ batch_idx = 2
    /\ Len(StepsIn(0)) >= 2
    /\ train_running_loss > 0
    /\ train_running_loss < SumLoss(Steps)

\* C15: every train step gets, with the rows ix of its batch, the targets at
\* exactly those row positions in the same order; the batches are trained on
\* in the order the loader yields them, the k-th batch of an epoch (from 0)
\* being the rows k * batch_size .. (k + 1) * batch_size - 1 with batch_idx k.
C15_TargetsFollowRows ==
    /\ \A i \in 1..Len(log) :
          IsStep(log[i]) =>
              /\ Len(log[i].targett) = Len(log[i].ix)
              /\ \A k \in 1..Len(log[i].ix) :
                     log[i].targett[k] = 10 * log[i].ix[k] + 1
    /\ \A e \in 0..epoch :
          \A k \in 1..Len(StepsIn(e)) :
              /\ StepsIn(e)[k].batch_idx = k - 1
              /\ StepsIn(e)[k].ix
                    = [j \in 1..batch_size |-> (k - 1) * batch_size + j - 1]

C15_Witness ==
    /\ pc = "done"
    /\ batch_size = 2
    /\ Len(StepsIn(1)) = 2
    /\ StepsIn(1)[2].batch_idx = 1
    /\ StepsIn(1)[2].ix = <<2, 3>>
    /\ StepsIn(1)[2].targett = <<21, 31>>

\* The configurations the documentation rules out: a cont_norm_layer other
\* than 'layernorm' or 'batchnorm' with continuous columns, embed_continuous
\* without continuous columns, the special-token column without the flag.
InvalidConfig(s) ==
    \/ ~IsNone(s.continuous_cols) /\ s.cont_norm_layer \notin {"layernorm", "batchnorm"}
    \/ s.embed_continuous /\ IsNone(s.continuous_cols)
    \/ "special_token" \in DOMAIN s.column_idx /\ ~s.with_special_token

\* C13: an invalid or inconsistent configuration is never silently accepted:
\* the constructor raises, or else the first forward pass does.
C13_InvalidConfigRaises ==
    (Built /\ InvalidConfig(self) /\ passes > 0) => out.status # "ok"

CatCols(s) == [i \in 1..Len(s.embed_input) |-> s.embed_input[i][1]]
ContCols(s) == IF IsNone(s.continuous_cols) THEN <<>> ELSE Get(s.continuous_cols)

\* C16: in a forward pass the continuous columns, when there are any, go one
\* of two ways. Embedded, each is a token after the categorical tokens, in the
\* order of continuous_cols, and nothing is concatenated after pooling. Not
\* embedded, they give no token and are normalised as a block by the
\* configured layer and concatenated after the pooled output (for a
\* cont_norm_layer that is neither 'layernorm' nor 'batchnorm' there is no
\* such layer and the pass raises there instead). The encoder gets one token
\* per categorical column, plus one per continuous column in the first case
\* only.
C16_ContinuousPaths ==
    (Built /\ passes > 0) =>
      LET exist == ~IsNone(self.continuous_cols)
          embedded == exist /\ self.embed_continuous
          documented == self.cont_norm_layer \in {"layernorm", "batchnorm"}
      IN /\ out.blocks_run = self.n_blocks
         /\ embedded =>
              /\ out.tokens = CatCols(self) \o ContCols(self)
              /\ out.concat = <<>>
              /\ out.norm = ""
              /\ out.status # "AttributeError"
              /\ out.mlp_in = out.pooled
         /\ (exist /\ ~embedded) =>
              /\ out.tokens = CatCols(self)
              /\ IF documented
                   THEN /\ out.status # "AttributeError"
                        /\ out.concat = ContCols(self)
                        /\ out.norm = self.cont_norm_layer
                        /\ out.mlp_in = out.pooled + Len(ContCols(self))
                   ELSE /\ out.status = "AttributeError"
                        /\ out.concat = <<>>
         /\ ~exist =>
              /\ out.tokens = CatCols(self)
              /\ out.concat = <<>>
              /\ out.status # "AttributeError"
         /\ Len(out.tokens)
              = Len(self.embed_input) + (IF embedded THEN Len(ContCols(self)) ELSE 0)

C16_Witness ==
    /\ Built
    /\ passes > 0
    /\ out.status = "ok"
    /\ ~self.embed_continuous
    /\ Len(ContCols(self)) = 2
    /\ out.concat = <<"cont1", "cont2">>
    /\ out.norm = "batchnorm"
    /\ Len(out.tokens) = 2

\* The arguments an object was constructed with.
ArgsOf(s) ==
    [kind |-> s.kind, column_idx |-> s.column_idx, embed_input |-> s.embed_input,
     continuous_cols |-> s.continuous_cols, input_dim |-> s.input_dim,
     n_blocks |-> s.n_blocks, keep_attn_weights |-> s.keep_attn_weights,
     with_special_token |-> s.with_special_token,
     embed_continuous |-> s.embed_continuous,
     cont_norm_layer |-> s.cont_norm_layer, mlp_hidden_dims |-> s.mlp_hidden_dims]

\* C17: a SAINT that is constructed has exactly n_blocks blocks, all of them
\* dual-attention blocks, each with n_feats equal to the number of tokens
\* forward gives the encoder; and with embed_continuous=True constructing a
\* SAINT succeeds or fails as constructing a TabTransformer with the same
\* arguments does, continuous_cols absent included.
C17_SaintBlocks ==
    (self.kind = "SAINT" /\ self.status # "new") =>
      /\ Built =>
           /\ Len(Get(self.transformer_blks)) = self.n_blocks
           /\ \A i \in 1..self.n_blocks :
                /\ Get(self.transformer_blks)[i].kind = "SaintEncoder"
                /\ Get(self.transformer_blks)[i].n_feats = Len(Tokens(self))
           /\ passes > 0 =>
                \A i \in 1..self.n_blocks :
                  Get(self.transformer_blks)[i].n_feats = Len(out.tokens)
      /\ self.embed_continuous =>
           self.status = TabTransformerInit(ArgsOf(self)).status

=============================================================================
